---- MODULE Spec2Model ----
(***************************************************************************)
(* The nrf_crypto ECDSA example (examples/crypto/nrf_crypto/ecdsa/main.c): *)
(* main initialises the logger, the memory manager and nrf_crypto, Alice   *)
(* imports her raw private key, signs a digest and frees the key, Bob      *)
(* imports the raw public key, verifies the signature, reports the verdict *)
(* and frees the key.                                                      *)
(*                                                                         *)
(* The nrf_crypto library itself is not part of the example's source.  Its *)
(* operations are modelled from the specification of the ECDSA engine      *)
(* (spec.md sections 3, 4, 6, 7), over a curve of prime order small enough *)
(* to enumerate: y^2 = x^3 + 2x + 2 over F_17, base point (5,1), order 19. *)
(* Byte buffers keep the widths of the source (32-byte scalars and         *)
(* coordinates, 64-byte signature and raw public key); their values are    *)
(* the fixed-width big-endian encodings of numbers of the small curve.     *)
(***************************************************************************)
EXTENDS Integers, Sequences, FiniteSets, TLC

\* ----------------------------------------------------------------- bounds
\* Number of digests Init draws m_hash from (the first is the source's).
NumDigests == 2

\* Number of candidate values of the raw public key constant Init draws
\* from: the first is the point derived from the private key, the others
\* are other valid points (key pairs that do not match).
NumPublicKeys == 2

\* ----------------------------------------------------- sizes of the source
\* sizeof(m_hash), sizeof(m_alice_raw_private_key): 4 rows of 8 bytes.
HashSize == 32
RawPrivateKeySize == 32
\* sizeof(m_alice_raw_public_key): 8 rows of 8 bytes.
RawPublicKeySize == 64
\* sizeof(m_signature), nrf_crypto_ecdsa_secp256r1_signature_t.
SignatureSize == 64
\* Width of one scalar or coordinate in every encoding.
ScalarSize == 32

\* ------------------------------------------------------------ result codes
NRF_SUCCESS == "NRF_SUCCESS"
NRF_ERROR_CRYPTO_ECDSA_INVALID_SIGNATURE == "NRF_ERROR_CRYPTO_ECDSA_INVALID_SIGNATURE"
\* Outcomes of the engine's error taxonomy (spec.md section 7).
InvalidKeyLength == "InvalidKeyLength"
InvalidScalarRange == "InvalidScalarRange"
PointNotOnCurve == "PointNotOnCurve"
MalformedSignature == "MalformedSignature"
EntropyUnavailable == "EntropyUnavailable"
\* A failure of the backend or of an external collaborator (logger, memory
\* manager, library initialisation): every call of the example returns a
\* ret_code_t that the example checks.
NRF_ERROR_INTERNAL == "NRF_ERROR_INTERNAL"
NoFault == "NoFault"

\* ------------------------------------------------------- byte conversions
\* Every value at or above Saturated is out of range of the small curve; the
\* decoding saturates there, TLC's integers being 32 bits wide.
Saturated == 65536

\* 256^e for the three low byte positions.
ByteWeight(e) == IF e = 0 THEN 1 ELSE IF e = 1 THEN 256 ELSE 65536

\* v (below 2^24) as `len` bytes, most significant first; the high part is
\* dropped when v does not fit.
ToBigEndian(v, len) ==
    [i \in 1..len |-> IF len - i > 2 THEN 0 ELSE (v \div ByteWeight(len - i)) % 256]

\* The number a big-endian byte string stands for, saturated.
FromBigEndian(bytes) ==
    LET len == Len(bytes)
        high == \E i \in 1..len : len - i > 2 /\ bytes[i] # 0
        Digit(e) == IF len > e THEN bytes[len - e] * ByteWeight(e) ELSE 0
        v == Digit(2) + Digit(1) + Digit(0)
    IN  IF high \/ v > Saturated THEN Saturated ELSE v

RECURSIVE PowMod(_, _, _)
\* x^e mod m by square-and-multiply.
PowMod(x, e, m) ==
    IF e = 0 THEN 1 % m
    ELSE LET h == PowMod(x, e \div 2, m)
             sq == (h * h) % m
         IN  IF e % 2 = 1 THEN (sq * (x % m)) % m ELSE sq

RECURSIVE ReduceRange(_, _, _, _)
\* bytes[lo..hi] as a big-endian integer reduced modulo m.
ReduceRange(bytes, lo, hi, m) ==
    IF lo > hi THEN 0
    ELSE IF lo = hi THEN bytes[lo] % m
    ELSE LET mid == (lo + hi) \div 2
         IN  (ReduceRange(bytes, lo, mid, m) * PowMod(256, hi - mid, m)
              + ReduceRange(bytes, mid + 1, hi, m)) % m

\* A big-endian byte string as an integer reduced modulo m.
ReduceBigEndian(bytes, m) == ReduceRange(bytes, 1, Len(bytes), m)

\* --------------------------------------------------------- CurveParameters
Curve == [p |-> 17, a |-> 2, b |-> 2, n |-> 19, Gx |-> 5, Gy |-> 1]

\* ---------------------------------------------------------- FieldArithmetic
\* Inversion by Fermat's little theorem, a^(m-2) mod m, m prime.
InvMod(x, m) == PowMod(x, m - 2, m)

FieldAdd(x, y) == (x + y) % Curve.p
FieldSub(x, y) == (x - y + 2 * Curve.p) % Curve.p
FieldMul(x, y) == (x * y) % Curve.p
FieldInv(x) == InvMod(x, Curve.p)

\* ----------------------------------------------------- CurvePointArithmetic
Infinity == [inf |-> TRUE, x |-> 0, y |-> 0]
Point(x, y) == [inf |-> FALSE, x |-> x, y |-> y]
BasePoint == Point(Curve.Gx, Curve.Gy)

\* Coordinates reduced, curve equation satisfied, not the point at infinity.
OnCurve(P) ==
    /\ ~P.inf
    /\ P.x \in 0..(Curve.p - 1)
    /\ P.y \in 0..(Curve.p - 1)
    /\ FieldMul(P.y, P.y)
         = FieldAdd(FieldAdd(FieldMul(FieldMul(P.x, P.x), P.x), FieldMul(Curve.a, P.x)),
                    Curve.b % Curve.p)

PointDouble(P) ==
    IF P.inf \/ P.y = 0 THEN Infinity
    ELSE LET l == FieldMul(FieldAdd(FieldMul(3, FieldMul(P.x, P.x)), Curve.a),
                           FieldInv(FieldMul(2, P.y)))
             x3 == FieldSub(FieldSub(FieldMul(l, l), P.x), P.x)
         IN  Point(x3, FieldSub(FieldMul(l, FieldSub(P.x, x3)), P.y))

PointAdd(P, Q) ==
    IF P.inf THEN Q
    ELSE IF Q.inf THEN P
    ELSE IF P.x = Q.x
         THEN IF P.y = Q.y THEN PointDouble(P) ELSE Infinity
    ELSE LET l == FieldMul(FieldSub(Q.y, P.y), FieldInv(FieldSub(Q.x, P.x)))
             x3 == FieldSub(FieldSub(FieldMul(l, l), P.x), Q.x)
         IN  Point(x3, FieldSub(FieldMul(l, FieldSub(P.x, x3)), P.y))

RECURSIVE ScalarMul(_, _)
\* k.P by double-and-add.
ScalarMul(k, P) ==
    IF k = 0 THEN Infinity
    ELSE LET h == PointDouble(ScalarMul(k \div 2, P))
         IN  IF k % 2 = 1 THEN PointAdd(h, P) ELSE h

\* The scalars valid as a private key or a nonce.
Scalars == 1..(Curve.n - 1)

\* -------------------------------------------------------------- KeyMaterial
\* A key object before import and after disposal: storage cleared.
ClearedPrivateKey == [init |-> FALSE, d |-> 0]
ClearedPublicKey == [init |-> FALSE, Q |-> Infinity]

\* Q = d.G.
derivePublicKey(d) == ScalarMul(d, BasePoint)

\* The raw form of a public key the example holds: X then Y, each
\* ScalarSize bytes, big-endian.
RawPublicKey(Q) == ToBigEndian(Q.x, ScalarSize) \o ToBigEndian(Q.y, ScalarSize)

\* importPrivateKey: the result code and the key object.
ecc_private_key_from_raw(raw, size) ==
    LET d == FromBigEndian(raw)
    IN  IF size # ScalarSize \/ Len(raw) # size
        THEN [ret |-> InvalidKeyLength, key |-> ClearedPrivateKey]
        ELSE IF d = 0 \/ d >= Curve.n
        THEN [ret |-> InvalidScalarRange, key |-> ClearedPrivateKey]
        ELSE [ret |-> NRF_SUCCESS, key |-> [init |-> TRUE, d |-> d]]

\* importPublicKey: the result code and the key object.  The raw form is the
\* one the example hands over, X then Y in 2 * ScalarSize bytes (the engine's
\* specification describes a form with a leading tag byte, 65 bytes).
ecc_public_key_from_raw(raw, size) ==
    IF size # 2 * ScalarSize \/ Len(raw) # size
    THEN [ret |-> InvalidKeyLength, key |-> ClearedPublicKey]
    ELSE LET Q == Point(FromBigEndian(SubSeq(raw, 1, ScalarSize)),
                        FromBigEndian(SubSeq(raw, ScalarSize + 1, 2 * ScalarSize)))
         IN  IF OnCurve(Q)
             THEN [ret |-> NRF_SUCCESS, key |-> [init |-> TRUE, Q |-> Q]]
             ELSE [ret |-> PointNotOnCurve, key |-> ClearedPublicKey]

\* -------------------------------------------------------------- ECDSAEngine
\* The digest as a big-endian integer reduced modulo n.
digest_as_scalar(hash) == ReduceBigEndian(hash, Curve.n)

\* Steps 2 and 3 of sign for the nonce k: r = (k.G).x mod n and
\* s = k^-1 (z + r.d) mod n.
ecdsa_sign_attempt(d, hash, k) ==
    LET R == ScalarMul(k, BasePoint)
        r == R.x % Curve.n
        s == (InvMod(k, Curve.n) * ((digest_as_scalar(hash) + r * d) % Curve.n)) % Curve.n
    IN  [r |-> r, s |-> s]

\* A signing loop that tests r alone and accepts a nonce giving s = 0.
NonceRejected_OnlyR(d, hash, k) == ecdsa_sign_attempt(d, hash, k).r = 0

\* A nonce the signing loop discards.
NonceRejected(d, hash, k) ==
    LET sig == ecdsa_sign_attempt(d, hash, k) IN sig.r = 0 \/ sig.s = 0

\* The fixed-width encoding of a signature: r then s.
RawSignature(sig) == ToBigEndian(sig.r, ScalarSize) \o ToBigEndian(sig.s, ScalarSize)

\* verify: the result code for a digest, a public key object and a signature.
ecdsa_verify(key, hash, hash_size, signature, signature_size) ==
    IF ~key.init THEN NRF_ERROR_INTERNAL
    ELSE IF hash_size # HashSize \/ Len(hash) # hash_size THEN InvalidKeyLength
    ELSE IF signature_size # 2 * ScalarSize \/ Len(signature) # signature_size
    THEN MalformedSignature
    ELSE LET r == FromBigEndian(SubSeq(signature, 1, ScalarSize))
             s == FromBigEndian(SubSeq(signature, ScalarSize + 1, 2 * ScalarSize))
         IN  IF r = 0 \/ r >= Curve.n \/ s = 0 \/ s >= Curve.n
             THEN MalformedSignature
             ELSE LET w == InvMod(s, Curve.n)
                      u1 == (digest_as_scalar(hash) * w) % Curve.n
                      u2 == (r * w) % Curve.n
                      P == PointAdd(ScalarMul(u1, BasePoint), ScalarMul(u2, key.Q))
                  IN  IF ~P.inf /\ P.x % Curve.n = r
                      THEN NRF_SUCCESS
                      ELSE NRF_ERROR_CRYPTO_ECDSA_INVALID_SIGNATURE

\* ------------------------------------------------- the example's constants
\* SHA256("Hello Bob!"), the initialiser of m_hash.
HelloBobHash ==
    << 66, 186, 131,  84, 219,  38,  58, 106,
       90, 159, 116, 214, 183, 206, 180, 201,
       98, 163, 216, 253,  88, 164,  25, 105,
      229,  33, 235,   2,  34,  69,  84,  21 >>

\* The digests Init draws m_hash from: the source's, then other 32-byte values.
DigestOf(i) ==
    IF i = 1 THEN HelloBobHash
    ELSE [j \in 1..HashSize |-> (i * 41 + j * 7) % 256]

\* The raw private key of the scalar d (the source's 0x11...11 is a scalar of
\* P-256; the model's curve has its own).
AliceRawPrivateKey(d) == ToBigEndian(d, RawPrivateKeySize)

\* A raw public key constant in the tagged 65-byte form.
AliceRawPublicKey_Tagged(d, j) == << 4 >> \o RawPublicKey(derivePublicKey(d))

\* The raw public key constant.  j = 1 is the key associated with the private
\* key d, as in the source (0x0217E6... is X then Y of 0x11...11 times the
\* base point of P-256, 64 bytes, no tag byte); j > 1 is the raw form of
\* another valid point.
AliceRawPublicKey(d, j) ==
    IF j = 1 THEN RawPublicKey(derivePublicKey(d))
    ELSE RawPublicKey(derivePublicKey(((d + j - 2) % (Curve.n - 1)) + 1))

\* ------------------------------------------------------------------- state
VARIABLES
    pc,                      \* position in main / alice_sign / bob_verify
    err_code,                \* the err_code local of the running function
    m_hash,                  \* the digest Alice signs and Bob verifies
    m_signature,             \* the signature buffer
    m_signature_size,        \* the size of the signature
    m_alice_raw_private_key, \* Alice's raw private key
    m_alice_raw_public_key,  \* Alice's raw public key, as Bob holds it
    alice_private_key,       \* the static key object of alice_sign
    alice_public_key,        \* the static key object of bob_verify
    nonce,                   \* the nonce the signature was computed with
    discarded,               \* the nonce the signing loop discarded last
    calls,                   \* history: the library calls made, in order
    log                      \* history: the messages logged, in order

vars == << pc, err_code, m_hash, m_signature, m_signature_size,
           m_alice_raw_private_key, m_alice_raw_public_key,
           alice_private_key, alice_public_key, nonce, discarded, calls, log >>

\* The data Bob's verification reads.
verify_inputs == << m_hash, m_signature, m_signature_size, alice_public_key >>

Init ==
    /\ pc = "log_init"
    /\ err_code = NRF_SUCCESS
    /\ \E i \in 1..NumDigests : m_hash = DigestOf(i)
    /\ m_signature = [i \in 1..SignatureSize |-> 0]
    /\ m_signature_size = 0
    /\ \E d \in Scalars, j \in 1..NumPublicKeys :
          /\ m_alice_raw_private_key = AliceRawPrivateKey(d)
          /\ m_alice_raw_public_key = AliceRawPublicKey(d, j)
    /\ alice_private_key = ClearedPrivateKey
    /\ alice_public_key = ClearedPublicKey
    /\ nonce = 0
    /\ discarded = 0
    /\ calls = <<>>
    /\ log = <<>>

\* One entry of the call history: the operation, the result it returned and
\* the length argument passed (0 for an operation that takes none).
Call(op, ret, size) == [op |-> op, ret |-> ret, size |-> size]

\* The result of a library call: the backend's failure, or else the
\* operation's own result.
Returned(fault, ret) == IF fault = NoFault THEN ret ELSE fault

BackendFaults == {NoFault, NRF_ERROR_INTERNAL}

\* A DEMO_ERROR_CHECK that logs the error and goes on.
DEMO_ERROR_CHECK_Continue(error, next) == next

\* DEMO_ERROR_CHECK(error): where control goes, `next` being the statement
\* after the macro.  APP_ERROR_CHECK does not return: the fault handler stops
\* the program.
DEMO_ERROR_CHECK(error, next) == IF error # NRF_SUCCESS THEN "fault" ELSE next

\* The messages DEMO_ERROR_CHECK logs.
ErrorLog(error) == IF error # NRF_SUCCESS THEN << "Error" >> ELSE << >>

\* ------------------------------------------------------------------- main
\* log_init: NRF_LOG_INIT, APP_ERROR_CHECK, then "ECDSA example started."
log_init ==
    /\ pc = "log_init"
    /\ \E fault \in BackendFaults :
          LET ret == Returned(fault, NRF_SUCCESS)
          IN  /\ err_code' = ret
              /\ calls' = Append(calls, Call("NRF_LOG_INIT", ret, 0))
              /\ pc' = IF ret # NRF_SUCCESS THEN "fault" ELSE "nrf_mem_init"
              /\ log' = IF ret # NRF_SUCCESS THEN log
                        ELSE Append(log, "ECDSA example started.")
    /\ UNCHANGED << m_hash, m_signature, m_signature_size, m_alice_raw_private_key,
                    m_alice_raw_public_key, alice_private_key, alice_public_key, nonce, discarded >>

\* err_code = nrf_mem_init(); DEMO_ERROR_CHECK(err_code);
main_nrf_mem_init ==
    /\ pc = "nrf_mem_init"
    /\ \E fault \in BackendFaults :
          LET ret == Returned(fault, NRF_SUCCESS)
          IN  /\ err_code' = ret
              /\ calls' = Append(calls, Call("nrf_mem_init", ret, 0))
              /\ pc' = DEMO_ERROR_CHECK(ret, "nrf_crypto_init")
              /\ log' = log \o ErrorLog(ret)
    /\ UNCHANGED << m_hash, m_signature, m_signature_size, m_alice_raw_private_key,
                    m_alice_raw_public_key, alice_private_key, alice_public_key, nonce, discarded >>

\* err_code = nrf_crypto_init(); DEMO_ERROR_CHECK(err_code); then main calls
\* alice_sign, which logs its banner.
main_nrf_crypto_init ==
    /\ pc = "nrf_crypto_init"
    /\ \E fault \in BackendFaults :
          LET ret == Returned(fault, NRF_SUCCESS)
          IN  /\ err_code' = ret
              /\ calls' = Append(calls, Call("nrf_crypto_init", ret, 0))
              /\ pc' = DEMO_ERROR_CHECK(ret, "alice_private_key_from_raw")
              /\ log' = log \o ErrorLog(ret)
    /\ UNCHANGED << m_hash, m_signature, m_signature_size, m_alice_raw_private_key,
                    m_alice_raw_public_key, alice_private_key, alice_public_key, nonce, discarded >>

\* -------------------------------------------------------------- alice_sign
\* An alice_sign with the key deallocation placed right after the import,
\* before the key is used to sign.
alice_private_key_from_raw_ThenFree ==
    /\ pc = "alice_private_key_from_raw"
    /\ err_code' = NRF_SUCCESS
    /\ alice_private_key' = ClearedPrivateKey
    /\ calls' = calls \o << Call("nrf_crypto_ecc_private_key_from_raw", NRF_SUCCESS,
                                 Len(m_alice_raw_private_key)),
                            Call("nrf_crypto_ecc_private_key_free", NRF_SUCCESS, 0) >>
    /\ pc' = "ecdsa_sign"
    /\ UNCHANGED << m_hash, m_signature, m_signature_size, m_alice_raw_private_key,
                    m_alice_raw_public_key, alice_public_key, nonce, discarded, log >>

\* Alice converts her raw private key to internal representation.
alice_private_key_from_raw ==
    /\ pc = "alice_private_key_from_raw"
    /\ \E fault \in BackendFaults :
          LET res == ecc_private_key_from_raw(m_alice_raw_private_key,
                                              Len(m_alice_raw_private_key))
              ret == Returned(fault, res.ret)
          IN  /\ err_code' = ret
              /\ alice_private_key' = IF ret = NRF_SUCCESS THEN res.key
                                      ELSE alice_private_key
              /\ calls' = Append(calls, Call("nrf_crypto_ecc_private_key_from_raw", ret,
                                             Len(m_alice_raw_private_key)))
              /\ pc' = DEMO_ERROR_CHECK(ret, "ecdsa_sign")
              /\ log' = log \o ErrorLog(ret)
    /\ UNCHANGED << m_hash, m_signature, m_signature_size, m_alice_raw_private_key,
                    m_alice_raw_public_key, alice_public_key, nonce, discarded >>

\* A capacity taken from the wrong buffer, sizeof(m_hash).
SignCapacity_OfHash == HashSize

\* The capacity alice_sign offers to sign: m_signature_size = sizeof(m_signature).
SignCapacity == SignatureSize

\* nrf_crypto_ecdsa_sign draws a nonce that gives r = 0 or s = 0: the nonce is
\* discarded and the loop of sign goes round again.
ecdsa_sign_retry ==
    /\ pc = "ecdsa_sign"
    /\ alice_private_key.init
    /\ \E k \in Scalars :
          /\ NonceRejected(alice_private_key.d, m_hash, k)
          /\ discarded' = k
    /\ m_signature_size' = SignCapacity
    /\ UNCHANGED << pc, nonce, err_code, m_hash, m_signature, m_alice_raw_private_key,
                    m_alice_raw_public_key, alice_private_key, alice_public_key,
                    calls, log >>

\* m_signature_size = sizeof(m_signature); err_code = nrf_crypto_ecdsa_sign(NULL,
\* &alice_private_key, m_hash, sizeof(m_hash), m_signature, &m_signature_size);
\* DEMO_ERROR_CHECK(err_code); and the two print_hex.  The call returns with a
\* nonce the loop accepts, or with a failure.
alice_ecdsa_sign ==
    /\ pc = "ecdsa_sign"
    /\ \E fault \in {NoFault, EntropyUnavailable}, k \in Scalars :
          LET capacity == SignCapacity
              sig == ecdsa_sign_attempt(alice_private_key.d, m_hash, k)
              own == IF ~alice_private_key.init THEN NRF_ERROR_INTERNAL
                     ELSE IF Len(m_hash) # HashSize THEN InvalidKeyLength
                     ELSE IF capacity < 2 * ScalarSize THEN InvalidKeyLength
                     ELSE NRF_SUCCESS
              ret == Returned(fault, own)
          IN  /\ ret = NRF_SUCCESS => ~NonceRejected(alice_private_key.d, m_hash, k)
              /\ ret # NRF_SUCCESS => k = 1
              /\ err_code' = ret
              /\ nonce' = IF ret = NRF_SUCCESS THEN k ELSE nonce
              /\ m_signature' = IF ret = NRF_SUCCESS THEN RawSignature(sig) ELSE m_signature
              /\ m_signature_size' = IF ret = NRF_SUCCESS THEN 2 * ScalarSize ELSE capacity
              /\ calls' = Append(calls, Call("nrf_crypto_ecdsa_sign", ret, capacity))
              /\ pc' = DEMO_ERROR_CHECK(ret, "alice_private_key_free")
              /\ log' = log \o ErrorLog(ret)
    /\ UNCHANGED << m_hash, m_alice_raw_private_key, m_alice_raw_public_key,
                    alice_private_key, alice_public_key, discarded >>

\* Key deallocation: err_code = nrf_crypto_ecc_private_key_free(&alice_private_key);
\* DEMO_ERROR_CHECK(err_code); alice_sign returns and main calls bob_verify.
alice_private_key_free ==
    /\ pc = "alice_private_key_free"
    /\ \E fault \in BackendFaults :
          LET ret == Returned(fault, NRF_SUCCESS)
          IN  /\ err_code' = ret
              /\ alice_private_key' = IF ret = NRF_SUCCESS THEN ClearedPrivateKey
                                      ELSE alice_private_key
              /\ calls' = Append(calls, Call("nrf_crypto_ecc_private_key_free", ret, 0))
              /\ pc' = DEMO_ERROR_CHECK(ret, "bob_public_key_from_raw")
              /\ log' = log \o ErrorLog(ret)
    /\ UNCHANGED << m_hash, m_signature, m_signature_size, m_alice_raw_private_key,
                    m_alice_raw_public_key, alice_public_key, nonce, discarded >>

\* -------------------------------------------------------------- bob_verify
\* Bob converts Alice's raw public key to internal representation:
\* nrf_crypto_ecc_public_key_from_raw(..., m_alice_raw_public_key,
\* sizeof(m_alice_raw_public_key)); DEMO_ERROR_CHECK(err_code);
bob_public_key_from_raw ==
    /\ pc = "bob_public_key_from_raw"
    /\ \E fault \in BackendFaults :
          LET res == ecc_public_key_from_raw(m_alice_raw_public_key,
                                             Len(m_alice_raw_public_key))
              ret == Returned(fault, res.ret)
          IN  /\ err_code' = ret
              /\ alice_public_key' = IF ret = NRF_SUCCESS THEN res.key
                                     ELSE alice_public_key
              /\ calls' = Append(calls, Call("nrf_crypto_ecc_public_key_from_raw", ret,
                                             Len(m_alice_raw_public_key)))
              /\ pc' = DEMO_ERROR_CHECK(ret, "ecdsa_verify")
              /\ log' = log \o ErrorLog(ret)
    /\ UNCHANGED << m_hash, m_signature, m_signature_size, m_alice_raw_private_key,
                    m_alice_raw_public_key, alice_private_key, nonce, discarded >>

\* A call of verify that passes sizeof(m_hash) as the signature size.
VerifyArgs_HashSizeTwice ==
    [key |-> alice_public_key, hash |-> m_hash, hash_size |-> Len(m_hash),
     signature |-> m_signature, signature_size |-> Len(m_hash)]

\* The arguments bob_verify passes to nrf_crypto_ecdsa_verify.
VerifyArgs ==
    [key |-> alice_public_key, hash |-> m_hash, hash_size |-> Len(m_hash),
     signature |-> m_signature, signature_size |-> m_signature_size]

\* A verify that clears the signature buffer it was given.
VerifyEffect_ClearsSignature ==
    /\ m_signature' = [i \in 1..SignatureSize |-> 0]
    /\ UNCHANGED << m_hash, m_signature_size, alice_public_key >>

\* What the call of nrf_crypto_ecdsa_verify leaves of the data it reads.
VerifyEffect == UNCHANGED verify_inputs

\* Bob verifies the message: err_code = nrf_crypto_ecdsa_verify(NULL,
\* &alice_public_key, m_hash, sizeof(m_hash), m_signature, m_signature_size);
bob_ecdsa_verify ==
    /\ pc = "ecdsa_verify"
    /\ \E fault \in BackendFaults :
          LET args == VerifyArgs
              ret == Returned(fault, ecdsa_verify(args.key, args.hash, args.hash_size,
                                                  args.signature, args.signature_size))
          IN  /\ err_code' = ret
              /\ calls' = Append(calls, Call("nrf_crypto_ecdsa_verify", ret,
                                             args.signature_size))
    /\ pc' = "report"
    /\ VerifyEffect
    /\ UNCHANGED << m_alice_raw_private_key, m_alice_raw_public_key,
                    alice_private_key, nonce, discarded, log >>

\* A verdict without the else-if: an invalid signature goes to DEMO_ERROR_CHECK.
ReportPc_NoInvalidBranch(error) ==
    IF error = NRF_SUCCESS THEN "bob_public_key_free"
    ELSE IF error # NRF_SUCCESS THEN "fault" ELSE "bob_public_key_free"

\* A verdict that reports every failure of verify as "not authentic".
ReportLog_AnyFailureInvalid(error) ==
    IF error = NRF_SUCCESS THEN << "Signature is valid. Message is authentic." >>
    ELSE << "Signature is invalid. Message is not authentic." >>

\* Where control goes after the verdict on err_code, and what is logged:
\* if (err_code == NRF_SUCCESS) ... else if (err_code ==
\* NRF_ERROR_CRYPTO_ECDSA_INVALID_SIGNATURE) ... else DEMO_ERROR_CHECK(err_code).
ReportPc(error) ==
    IF error = NRF_SUCCESS THEN "bob_public_key_free"
    ELSE IF error = NRF_ERROR_CRYPTO_ECDSA_INVALID_SIGNATURE THEN "bob_public_key_free"
    ELSE DEMO_ERROR_CHECK(error, "bob_public_key_free")

ReportLog(error) ==
    IF error = NRF_SUCCESS THEN << "Signature is valid. Message is authentic." >>
    ELSE IF error = NRF_ERROR_CRYPTO_ECDSA_INVALID_SIGNATURE
    THEN << "Signature is invalid. Message is not authentic." >>
    ELSE ErrorLog(error)

bob_report ==
    /\ pc = "report"
    /\ pc' = ReportPc(err_code)
    /\ log' = log \o ReportLog(err_code)
    /\ UNCHANGED << err_code, m_hash, m_signature, m_signature_size,
                    m_alice_raw_private_key, m_alice_raw_public_key,
                    alice_private_key, alice_public_key, nonce, discarded, calls >>

\* Key deallocation: err_code = nrf_crypto_ecc_public_key_free(&alice_public_key);
\* DEMO_ERROR_CHECK(err_code); bob_verify returns to main.
bob_public_key_free ==
    /\ pc = "bob_public_key_free"
    /\ \E fault \in BackendFaults :
          LET ret == Returned(fault, NRF_SUCCESS)
          IN  /\ err_code' = ret
              /\ alice_public_key' = IF ret = NRF_SUCCESS THEN ClearedPublicKey
                                     ELSE alice_public_key
              /\ calls' = Append(calls, Call("nrf_crypto_ecc_public_key_free", ret, 0))
              /\ pc' = DEMO_ERROR_CHECK(ret, "executed")
              /\ log' = log \o ErrorLog(ret)
    /\ UNCHANGED << m_hash, m_signature, m_signature_size, m_alice_raw_private_key,
                    m_alice_raw_public_key, alice_private_key, nonce, discarded >>

\* NRF_LOG_INFO("ECDSA example executed successfully."); then for (;;) {}:
\* at "idle" the program takes no further step.
main_executed ==
    /\ pc = "executed"
    /\ log' = Append(log, "ECDSA example executed successfully.")
    /\ pc' = "idle"
    /\ UNCHANGED << err_code, m_hash, m_signature, m_signature_size,
                    m_alice_raw_private_key, m_alice_raw_public_key,
                    alice_private_key, alice_public_key, nonce, discarded, calls >>

Next ==
    \/ log_init
    \/ main_nrf_mem_init
    \/ main_nrf_crypto_init
    \/ alice_private_key_from_raw
    \/ ecdsa_sign_retry
    \/ alice_ecdsa_sign
    \/ alice_private_key_free
    \/ bob_public_key_from_raw
    \/ bob_ecdsa_verify
    \/ bob_report
    \/ bob_public_key_free
    \/ main_executed

Spec == Init /\ [][Next]_vars

\* The nonce source is fair: a nonce the signing loop accepts is eventually
\* drawn (or the source fails), so the call of sign returns.
FairSpec == Spec /\ WF_vars(alice_ecdsa_sign)

\* ------------------------------------------------------------ the claims
\* Positions of the calls of an operation in the history.
CallsOf(op) == {i \in DOMAIN calls : calls[i].op = op}
Made(op) == CallsOf(op) # {}
Succeeded(op) == \E i \in CallsOf(op) : calls[i].ret = NRF_SUCCESS
Logged(msg) == \E i \in DOMAIN log : log[i] = msg

ValidMsg == "Signature is valid. Message is authentic."
InvalidMsg == "Signature is invalid. Message is not authentic."
ExecutedMsg == "ECDSA example executed successfully."

\* The positions of main after alice_sign has returned.
AfterAliceSign ==
    {"bob_public_key_from_raw", "ecdsa_verify", "report", "bob_public_key_free",
     "executed", "idle"}

\* The scalar of Alice's raw private key.
AliceScalar == FromBigEndian(m_alice_raw_private_key)

\* Bob's raw public key is the one derived from Alice's private key.
KeysMatch == m_alice_raw_public_key = RawPublicKey(derivePublicKey(AliceScalar))

\* The signature components in the buffer.
SigR == FromBigEndian(SubSeq(m_signature, 1, ScalarSize))
SigS == FromBigEndian(SubSeq(m_signature, ScalarSize + 1, 2 * ScalarSize))

\* C1: once sign has succeeded, verifying the buffer m_signature (with the
\* size sign wrote) over m_hash with the public key derived from the private
\* key succeeds; and in the example, with the matching raw public key, a call
\* of verify never returns invalid-signature, returns success whenever the
\* backend did not fail, and "not authentic" is never logged.
C1_SignVerifyRoundTrip ==
    Succeeded("nrf_crypto_ecdsa_sign") =>
        /\ ecdsa_verify([init |-> TRUE, Q |-> derivePublicKey(AliceScalar)],
                        m_hash, Len(m_hash), m_signature, m_signature_size) = NRF_SUCCESS
        /\ KeysMatch =>
              /\ \A i \in CallsOf("nrf_crypto_ecdsa_verify") :
                    calls[i].ret \in {NRF_SUCCESS, NRF_ERROR_INTERNAL}
              /\ ~Logged(InvalidMsg)
              /\ (pc \in {"bob_public_key_free", "executed", "idle"}) => Logged(ValidMsg)

C1_Witness ==
    /\ KeysMatch
    /\ \E i \in CallsOf("nrf_crypto_ecdsa_verify") : calls[i].ret = NRF_SUCCESS
    /\ Logged(ValidMsg)

\* C2: whenever the private key import succeeded and control has left
\* alice_sign or the program has stopped, nrf_crypto_ecc_private_key_free has
\* been called.
C2_PrivateKeyFreedOnEveryPath ==
    (Succeeded("nrf_crypto_ecc_private_key_from_raw") /\ pc \in AfterAliceSign \cup {"fault"})
        => Made("nrf_crypto_ecc_private_key_free")

\* The program stopped at the fault handler right after the call of `op`.
FaultAfter(op) == pc = "fault" /\ calls # <<>> /\ calls[Len(calls)].op = op

\* C3: once bob_verify has acted on the result of verify, "not authentic" is
\* logged exactly when verify returned invalid-signature, "valid" exactly when
\* it returned success, and the fault handler is reached from the verdict
\* exactly when it returned anything else; before that none of the three.
C3_InvalidNeverConflated ==
    LET reported == Made("nrf_crypto_ecdsa_verify") /\ pc # "report"
        ret == calls[CHOOSE i \in CallsOf("nrf_crypto_ecdsa_verify") : TRUE].ret
    IN  /\ reported =>
              /\ Logged(InvalidMsg) <=> ret = NRF_ERROR_CRYPTO_ECDSA_INVALID_SIGNATURE
              /\ Logged(ValidMsg) <=> ret = NRF_SUCCESS
              /\ FaultAfter("nrf_crypto_ecdsa_verify")
                    <=> ret \notin {NRF_SUCCESS, NRF_ERROR_CRYPTO_ECDSA_INVALID_SIGNATURE}
        /\ ~reported =>
              ~Logged(InvalidMsg) /\ ~Logged(ValidMsg) /\ ~FaultAfter("nrf_crypto_ecdsa_verify")

C3_Witness ==
    /\ Logged(InvalidMsg)
    /\ pc = "bob_public_key_free"
    /\ err_code = NRF_ERROR_CRYPTO_ECDSA_INVALID_SIGNATURE

\* C4 as stated: the raw public key handed to import is 65 bytes, a tag byte
\* (4, the mark of the uncompressed form) followed by X and Y.
C4_PublicKeyIs65Bytes ==
    \A i \in CallsOf("nrf_crypto_ecc_public_key_from_raw") :
        /\ calls[i].size = 1 + 2 * ScalarSize
        /\ Len(m_alice_raw_public_key) = 1 + 2 * ScalarSize
        /\ m_alice_raw_public_key[1] = 4

\* C4 amended: the raw public key handed to import is 64 bytes, the 32-byte
\* big-endian X followed by the 32-byte big-endian Y of a point of the curve,
\* with no tag byte; a successful import yields that point.
C4_PublicKeyIs64Bytes ==
    \A i \in CallsOf("nrf_crypto_ecc_public_key_from_raw") :
        LET Q == Point(FromBigEndian(SubSeq(m_alice_raw_public_key, 1, ScalarSize)),
                       FromBigEndian(SubSeq(m_alice_raw_public_key, ScalarSize + 1,
                                            2 * ScalarSize)))
        IN  /\ calls[i].size = RawPublicKeySize
            /\ Len(m_alice_raw_public_key) = RawPublicKeySize
            /\ RawPublicKeySize = 2 * ScalarSize
            /\ OnCurve(Q)
            /\ m_alice_raw_public_key = RawPublicKey(Q)
            /\ pc = "ecdsa_verify" => alice_public_key = [init |-> TRUE, Q |-> Q]

C4_Witness ==
    /\ pc = "ecdsa_verify"
    /\ Succeeded("nrf_crypto_ecc_public_key_from_raw")
    /\ alice_public_key.init

\* C5: sign is offered a capacity of 64, after a successful sign the buffer
\* holds 64 bytes and m_signature_size is 64, and verify is passed that value.
C5_SignatureIs64Bytes ==
    /\ \A i \in CallsOf("nrf_crypto_ecdsa_sign") : calls[i].size = SignatureSize
    /\ Succeeded("nrf_crypto_ecdsa_sign") =>
          m_signature_size = SignatureSize /\ Len(m_signature) = SignatureSize
    /\ \A i \in CallsOf("nrf_crypto_ecdsa_verify") :
          calls[i].size = SignatureSize /\ calls[i].size = m_signature_size

C5_Witness ==
    /\ Succeeded("nrf_crypto_ecdsa_sign")
    /\ Made("nrf_crypto_ecdsa_verify")
    /\ m_signature_size = SignatureSize

C7_SignTerminatesInRange ==
    /\ [](Succeeded("nrf_crypto_ecdsa_sign") =>
            /\ SigR \in Scalars /\ SigS \in Scalars
            /\ ~NonceRejected(AliceScalar, m_hash, nonce)
            /\ m_signature = RawSignature(ecdsa_sign_attempt(AliceScalar, m_hash, nonce)))
    /\ [](discarded # 0 => NonceRejected(AliceScalar, m_hash, discarded))
    /\ [](pc = "ecdsa_sign" => ~Made("nrf_crypto_ecdsa_sign") /\ nonce = 0)
    /\ (pc = "ecdsa_sign" ~> pc # "ecdsa_sign")

C7_Witness ==
    /\ Succeeded("nrf_crypto_ecdsa_sign")
    /\ discarded # 0
    /\ ecdsa_sign_attempt(AliceScalar, m_hash, discarded).s = 0
    /\ SigR \in Scalars /\ SigS \in Scalars

\* The library calls of main, in program order.
ProgramOrder ==
    << "NRF_LOG_INIT", "nrf_mem_init", "nrf_crypto_init",
       "nrf_crypto_ecc_private_key_from_raw", "nrf_crypto_ecdsa_sign",
       "nrf_crypto_ecc_private_key_free", "nrf_crypto_ecc_public_key_from_raw",
       "nrf_crypto_ecdsa_verify", "nrf_crypto_ecc_public_key_free" >>

\* C8: the calls made are an initial part of the program order, each once:
\* nrf_mem_init then nrf_crypto_init before any key operation, the three calls
\* of alice_sign before those of bob_verify; and every call but the last
\* returned success (or, for verify, invalid-signature, which DEMO_ERROR_CHECK
\* does not see).
C8_InitFirstStepsInOrder ==
    /\ Len(calls) <= Len(ProgramOrder)
    /\ \A i \in DOMAIN calls : calls[i].op = ProgramOrder[i]
    /\ \A i \in DOMAIN calls :
          i < Len(calls) =>
             \/ calls[i].ret = NRF_SUCCESS
             \/ /\ calls[i].op = "nrf_crypto_ecdsa_verify"
                /\ calls[i].ret = NRF_ERROR_CRYPTO_ECDSA_INVALID_SIGNATURE
    /\ pc \in AfterAliceSign => Succeeded("nrf_crypto_ecc_private_key_free")

C8_Witness ==
    /\ pc = "idle"
    /\ Len(calls) = Len(ProgramOrder)

\* The operations that use a key object after its import.
PrivateKeyUses == {"nrf_crypto_ecdsa_sign", "nrf_crypto_ecc_private_key_free"}
PublicKeyUses == {"nrf_crypto_ecdsa_verify", "nrf_crypto_ecc_public_key_free"}

\* In the history, every use of a key follows a successful import of it and no
\* call of its free, and the key is imported and freed at most once.
KeyLifecycle(import, uses, free) ==
    /\ \A i \in DOMAIN calls :
          calls[i].op \in uses \cup {import} =>
             \A j \in CallsOf(free) : j >= i
    /\ \A i \in DOMAIN calls :
          calls[i].op \in uses =>
             \E j \in CallsOf(import) : j < i /\ calls[j].ret = NRF_SUCCESS
    /\ Cardinality(CallsOf(free)) <= 1
    /\ Cardinality(CallsOf(import)) <= 1

\* C9: no key is used after its disposal, each key is imported before its
\* first use and freed at most once; a key object is initialised exactly
\* while it is imported and not yet freed.
C9_NoUseAfterFree ==
    /\ KeyLifecycle("nrf_crypto_ecc_private_key_from_raw", PrivateKeyUses,
                    "nrf_crypto_ecc_private_key_free")
    /\ KeyLifecycle("nrf_crypto_ecc_public_key_from_raw", PublicKeyUses,
                    "nrf_crypto_ecc_public_key_free")
    /\ alice_private_key.init <=>
          /\ Succeeded("nrf_crypto_ecc_private_key_from_raw")
          /\ ~Succeeded("nrf_crypto_ecc_private_key_free")
    /\ alice_public_key.init <=>
          /\ Succeeded("nrf_crypto_ecc_public_key_from_raw")
          /\ ~Succeeded("nrf_crypto_ecc_public_key_free")

C9_Witness ==
    /\ Succeeded("nrf_crypto_ecc_private_key_free")
    /\ Succeeded("nrf_crypto_ecc_public_key_free")
    /\ ~alice_private_key.init /\ ~alice_public_key.init

\* C10: the final message is logged exactly in the executions that never
\* reached the fault handler, whether verify returned success or
\* invalid-signature; after an invalid-signature result the program always
\* has a next step until it idles or the free fails; and the public key
\* free is called exactly after those two results of verify.
C10_InvalidDoesNotStopDemo ==
    LET verified == Made("nrf_crypto_ecdsa_verify")
        ret == calls[CHOOSE i \in CallsOf("nrf_crypto_ecdsa_verify") : TRUE].ret
        passed == verified /\ ret \in {NRF_SUCCESS, NRF_ERROR_CRYPTO_ECDSA_INVALID_SIGNATURE}
    IN  /\ Logged(ExecutedMsg) <=> pc = "idle"
        /\ pc = "idle" => passed /\ Len(calls) = Len(ProgramOrder)
        /\ (pc \in {"report", "bob_public_key_free", "executed"})
              => ENABLED (bob_report \/ bob_public_key_free \/ main_executed)
        /\ Made("nrf_crypto_ecc_public_key_free") => passed
        /\ (passed /\ pc \in {"executed", "idle", "fault"})
              => Made("nrf_crypto_ecc_public_key_free")
        /\ (passed /\ pc = "fault") => FaultAfter("nrf_crypto_ecc_public_key_free")

C10_Witness ==
    /\ pc = "idle"
    /\ Logged(InvalidMsg)
    /\ Logged(ExecutedMsg)
    /\ Succeeded("nrf_crypto_ecc_public_key_free")

====
